---- MODULE Spec2Model ----
(***************************************************************************)
(* State-machine model of spotify_to_tidal.py: the Track Resolver          *)
(* (find_tidal_track), the Playlist Materializer                           *)
(* (_create_and_populate_playlist), the Import Orchestrator (import_all,   *)
(* import_individually) and the Folder Batch Controller (process_folder),  *)
(* driven by main() in single-file mode or in folder mode.                 *)
(*                                                                         *)
(* The destination catalog and the user are the environment: every catalog *)
(* request and every prompt draws its answer from a small set.  A Ctrl-C   *)
(* is the answer "^C" of a prompt or the answer "interrupt" of a request.  *)
(***************************************************************************)
EXTENDS Integers, Sequences, FiniteSets, TLC

\* ------------------------------------------------------------------ bounds
MaxFiles == 3
MaxTracks == 2
MaxFolderTracks == 1

\* ------------------------------------------------------- program constants
\* throttle delays in milliseconds
retry_delay == 300
fallback_delay == 200

\* ------------------------------------------------------------- data model
None == 0
\* identifiers the destination catalog can answer with
TidalIds == {1, 2}

\* SpotifyTrack records; only the fields the control flow reads are kept.
SpotifyTracks ==
    { [isrc |-> "ISRC", image_url |-> "img", preview_url |-> "mp3"],
      [isrc |-> "",     image_url |-> "",    preview_url |-> ""],
      [isrc |-> "ISRC", image_url |-> "",    preview_url |-> ""] }

\* mutant: the status argument is dropped and the dataclass default stays
ImportResult_pending(track, tidal, status) ==
    [spotify_track |-> track, tidal_track |-> tidal, status |-> "pending"]

ImportResult(track, tidal, status) ==
    [spotify_track |-> track, tidal_track |-> tidal, status |-> status]

TrackLists(n) == UNION { [1..k -> SpotifyTracks] : k \in 0..n }

\* What a catalog lookup (by ISRC or by text) can answer.
CatalogAnswers ==
    { [kind |-> "hit", id |-> i] : i \in TidalIds }
    \cup { [kind |-> k, id |-> None] : k \in {"miss", "error", "interrupt"} }

\* What a playlist request (create, add) can answer.
RequestAnswers == {"ok", "error", "interrupt"}

\* What the user can type at a yes/no prompt.
UserInputs == {"y", "n", "", "^C"}
ModeInputs == {"all", "review", "", "^C"}
\* At the name prompt: accept the default, or Ctrl-C (a typed name enters the
\* program through --name in single-file mode).
NameInputs == {"", "^C"}

\* Names recorded in the folder report; file tags the entry the name was
\* recorded for.
CsvName(i) == [file |-> i, text |-> "csv"]
csv_to_default_name(i) == [file |-> i, text |-> "default"]
TypedName(i, raw) == [file |-> i, text |-> raw]

\* ---------------------------------------------------------- pure functions
\* mutant: the typed answer is ignored, every prompt gives its default
ask_yes_no_default(raw, default) == default

\* mutant: a Ctrl-C at the prompt counts as "no" instead of the default
ask_yes_no_interrupt_refuses(raw, default) ==
    IF raw = "^C" THEN FALSE
    ELSE IF raw = "" THEN default
    ELSE raw \in {"y", "yes"}

ask_yes_no(raw, default) ==
    IF raw = "^C" THEN default
    ELSE IF raw = "" THEN default
    ELSE raw \in {"y", "yes"}

ask_choice(raw, default) ==
    IF raw = "^C" THEN default
    ELSE IF raw = "" THEN default
    ELSE raw

prompt_playlist_name(i, raw, default_name) ==
    IF raw = "" THEN default_name ELSE TypedName(i, raw)

Op(op, ms) == [op |-> op, ms |-> ms]

\* the answer of a lookup the call did not issue
NotIssued == [kind |-> "none", id |-> None]

\* find_tidal_track: a1 is the answer of the ISRC lookup, a2 of the text
\* search.  ret is the returned track id (None for no match), raised tells
\* that a KeyboardInterrupt left the function, ops lists what the call did,
\* isrc is the answer the ISRC lookup got and search the answer the text
\* search got (kind "none": not issued).
\* mutant: the ISRC hit is kept but the function does not return on it; the
\* text search runs as well and its hit, if any, wins
find_tidal_track_no_early_return(track, a1, a2) ==
    LET lookup == IF track.isrc # "" THEN <<Op("isrc", 0)>> ELSE <<>>
        isrc   == IF track.isrc # "" THEN a1 ELSE NotIssued
        ops    == lookup \o <<Op("sleep", retry_delay), Op("search", 0)>>
        first  == IF isrc.kind = "hit" THEN isrc.id ELSE None
    IN  [ret    |-> IF a2.kind = "hit" THEN a2.id ELSE first,
         raised |-> isrc.kind = "interrupt" \/ a2.kind = "interrupt",
         ops    |-> ops,
         isrc   |-> isrc,
         search |-> a2]

\* mutant: the two `except Exception: pass` are missing, a lookup error
\* leaves the function
find_tidal_track_error_raises(track, a1, a2) ==
    LET lookup == IF track.isrc # "" THEN <<Op("isrc", 0)>> ELSE <<>>
        isrc   == IF track.isrc # "" THEN a1 ELSE NotIssued
        Result(ret, raised, ops, search) ==
            [ret |-> ret, raised |-> raised, ops |-> ops, isrc |-> isrc,
             search |-> search]
    IN  IF isrc.kind = "hit"
          THEN Result(isrc.id, FALSE, lookup, NotIssued)
        ELSE IF isrc.kind \in {"interrupt", "error"}
          THEN Result(None, TRUE, lookup, NotIssued)
        ELSE LET ops == lookup \o <<Op("sleep", retry_delay), Op("search", 0)>>
             IN  IF a2.kind = "hit"
                   THEN Result(a2.id, FALSE, ops, a2)
                 ELSE IF a2.kind \in {"interrupt", "error"}
                   THEN Result(None, TRUE, ops, a2)
                 ELSE Result(None, FALSE, ops, a2)

\* mutant: the sleep comes after the text search instead of before it
find_tidal_track_late_throttle(track, a1, a2) ==
    LET lookup == IF track.isrc # "" THEN <<Op("isrc", 0)>> ELSE <<>>
        isrc   == IF track.isrc # "" THEN a1 ELSE NotIssued
        Result(ret, raised, ops, search) ==
            [ret |-> ret, raised |-> raised, ops |-> ops, isrc |-> isrc,
             search |-> search]
    IN  IF isrc.kind = "hit"
          THEN Result(isrc.id, FALSE, lookup, NotIssued)
        ELSE IF isrc.kind = "interrupt"
          THEN Result(None, TRUE, lookup, NotIssued)
        ELSE LET ops == lookup \o <<Op("search", 0), Op("sleep", retry_delay)>>
             IN  IF a2.kind = "hit"
                   THEN Result(a2.id, FALSE, ops, a2)
                 ELSE IF a2.kind = "interrupt"
                   THEN Result(None, TRUE, ops, a2)
                 ELSE Result(None, FALSE, ops, a2)

find_tidal_track(track, a1, a2) ==
    LET lookup == IF track.isrc # "" THEN <<Op("isrc", 0)>> ELSE <<>>
        isrc   == IF track.isrc # "" THEN a1 ELSE NotIssued
        Result(ret, raised, ops, search) ==
            [ret |-> ret, raised |-> raised, ops |-> ops, isrc |-> isrc,
             search |-> search]
    IN  IF isrc.kind = "hit"
          THEN Result(isrc.id, FALSE, lookup, NotIssued)
        ELSE IF isrc.kind = "interrupt"
          THEN Result(None, TRUE, lookup, NotIssued)
        ELSE LET ops == lookup \o <<Op("sleep", retry_delay), Op("search", 0)>>
             IN  IF a2.kind = "hit"
                   THEN Result(a2.id, FALSE, ops, a2)
                 ELSE IF a2.kind = "interrupt"
                   THEN Result(None, TRUE, ops, a2)
                 ELSE Result(None, FALSE, ops, a2)

CountOp(ops, op) == Cardinality({ i \in 1..Len(ops) : ops[i].op = op })

IsMatched(r) == r.tidal_track # None
IsAdded(r) == r.status = "added" /\ r.tidal_track # None

RECURSIVE Ids(_)
Ids(rs) == IF rs = <<>> THEN <<>> ELSE <<Head(rs).tidal_track>> \o Ids(Tail(rs))

\* track_ids as import_all and import_individually compute them
\* mutant: the `if r.tidal_track` filter is missing
all_track_ids_unfiltered(rs) == Ids(rs)

all_track_ids(rs) == Ids(SelectSeq(rs, IsMatched))

\* mutant: the `r.status == "added"` filter is missing
review_track_ids_matched(rs) == Ids(SelectSeq(rs, IsMatched))

review_track_ids(rs) == Ids(SelectSeq(rs, IsAdded))

\* print_folder_summary: the four counts it prints (csv_files is modelled
\* by its length)
print_folder_summary(files, imported, skipped, failed) ==
    [total    |-> files,
     imported |-> Len(imported),
     skipped  |-> Len(skipped),
     failed   |-> Len(failed)]

\* ------------------------------------------------------------------- state
VARIABLES
    args_folder,     \* main: --folder given
    csv_files,       \* number of CSV files discovered (1 in single-file mode)
    file_idx,        \* process_folder: 1-based index of the current entry
    pc,              \* position in the program
    tracks,          \* the current entry's parsed track list
    playlist_name,
    mode,            \* "all" | "review"
    idx,             \* number of tracks the per-track loop has finished
    tidal_track,     \* import_individually: the match awaiting confirmation
    results,         \* the ImportResult list of the current run
    track_ids,       \* the Materializer's argument
    tid_idx,         \* fallback loop: number of ids attempted one by one
    playlist,        \* the created playlist: [exists, items]
    requests,        \* playlist requests and sleeps of the current run
    call,            \* the find_tidal_track call of the latest step (NoCall: none)
    imported_names, skipped_names, failed_entries,
    summary_printed, \* print_folder_summary was executed
    run_state,       \* "none" | "running" | "returned" | "cancelled" | "failed"
    answer,          \* what the user typed at the latest step's prompt ("-": no prompt)
    loaded,          \* what load_csv gave the latest step ("-": not called)
    interrupt,       \* where the latest step saw a Ctrl-C ("none": it saw none)
    asked_continue   \* "Continue with remaining playlists?" was asked

vars == <<args_folder, csv_files, file_idx, pc, tracks, playlist_name, mode,
          idx, tidal_track, results, track_ids, tid_idx, playlist, requests,
          call, imported_names, skipped_names, failed_entries,
          summary_printed, run_state, answer, loaded, interrupt,
          asked_continue>>

argVars == <<args_folder, csv_files>>
reportVars == <<imported_names, skipped_names, failed_entries, summary_printed>>
entryVars == <<tracks, playlist_name, mode>>
loopVars == <<idx, tidal_track, results>>
matVars == <<track_ids, tid_idx, playlist, requests>>

NoCall == [ret |-> None, raised |-> FALSE, ops |-> <<>>,
           isrc |-> NotIssued, search |-> NotIssued]
NoPlaylist == [exists |-> FALSE, items |-> <<>>]

Init ==
    /\ args_folder \in BOOLEAN
    /\ csv_files \in (IF args_folder THEN 0..MaxFiles ELSE {1})
    /\ file_idx = 1
    /\ pc = IF args_folder THEN "pf_start" ELSE "sf_load"
    /\ tracks = <<>>
    /\ playlist_name = CsvName(0)
    /\ mode = "all"
    /\ idx = 0
    /\ tidal_track = None
    /\ results = <<>>
    /\ track_ids = <<>>
    /\ tid_idx = 0
    /\ playlist = NoPlaylist
    /\ requests = <<>>
    /\ call = NoCall
    /\ imported_names = <<>>
    /\ skipped_names = <<>>
    /\ failed_entries = <<>>
    /\ summary_printed = FALSE
    /\ run_state = "none"
    /\ answer = "-"
    /\ loaded = "-"
    /\ interrupt = "none"
    /\ asked_continue = FALSE

\* ------------------------------------------------------- control transfer
\* A step that calls find_tidal_track sets call, a step that calls load_csv
\* sets loaded, a step that sees a Ctrl-C sets interrupt; every other step
\* leaves them at "nothing observed".
NoInterrupt == answer' = "-" /\ interrupt' = "none"
NoLookup == call' = NoCall /\ loaded' = "-"
Quiet == NoLookup /\ NoInterrupt
Seen(raw, where) ==
    /\ answer' = raw
    /\ interrupt' = IF raw = "^C" THEN where ELSE "none"

\* Locals of one loop iteration of process_folder; they are rebound by the
\* next iteration before being read, so `continue` clears them.
RunCleared ==
    /\ tracks' = <<>>
    /\ playlist_name' = CsvName(0)
    /\ mode' = "all"
    /\ idx' = 0
    /\ tidal_track' = None
    /\ results' = <<>>
    /\ track_ids' = <<>>
    /\ tid_idx' = 0
    /\ playlist' = NoPlaylist
    /\ requests' = <<>>
    /\ run_state' = "none"

\* `continue` in the for loop of process_folder
Continue ==
    /\ file_idx' = file_idx + 1
    /\ pc' = "pf_load"
    /\ RunCleared

\* mutant: the per-track loop swallows the KeyboardInterrupt and falls
\* through to the Materializer
RaiseKeyboardInterrupt_swallowed(where) ==
    /\ run_state' = "cancelled"
    /\ answer' = "-"
    /\ interrupt' = where
    /\ pc' = IF pc \in {"all_loop", "rev_find"} THEN "mat_create"
             ELSE IF args_folder THEN "pf_interrupted" ELSE "sf_interrupted"

\* A KeyboardInterrupt leaves import_all / import_individually and reaches
\* the caller's handler (process_folder line 688, main line 891).
RaiseKeyboardInterrupt(where) ==
    /\ run_state' = "cancelled"
    /\ answer' = "-"
    /\ interrupt' = where
    /\ pc' = IF args_folder THEN "pf_interrupted" ELSE "sf_interrupted"

\* mutant: process_folder has no `except Exception` around the import, the
\* exception leaves process_folder as it does in single-file mode
RaiseException_unhandled ==
    /\ run_state' = "failed"
    /\ NoInterrupt
    /\ pc' = "crash"

\* Any other exception leaves the run (process_folder line 698; main has no
\* handler for it).
RaiseException ==
    /\ run_state' = "failed"
    /\ NoInterrupt
    /\ pc' = IF args_folder THEN "pf_failed" ELSE "crash"

\* return results, playlist
ReturnFromImport ==
    /\ run_state' = "returned"
    /\ NoInterrupt
    /\ pc' = IF args_folder THEN "pf_imported" ELSE "sf_summary"

\* --------------------------------------------------------- process_folder
\* lines 615-627
ProcessFolderStart ==
    /\ pc = "pf_start"
    /\ pc' = IF csv_files = 0 THEN "done" ELSE "pf_load"
    /\ Quiet
    /\ UNCHANGED <<argVars, file_idx, entryVars, loopVars, matVars, reportVars,
                   run_state, asked_continue>>

\* lines 634-658: load the next CSV; a read failure is recorded under failed,
\* an empty track list under skipped.
PfLoad ==
    /\ pc = "pf_load"
    /\ file_idx <= csv_files
    /\ \/ /\ loaded' = "error"
          /\ failed_entries' = Append(failed_entries, <<CsvName(file_idx), "err">>)
          /\ Continue
          /\ UNCHANGED <<imported_names, skipped_names>>
       \/ \E ts \in TrackLists(MaxFolderTracks) :
            IF ts = <<>>
              THEN /\ loaded' = "empty"
                   /\ skipped_names' = Append(skipped_names, CsvName(file_idx))
                   /\ Continue
                   /\ UNCHANGED <<imported_names, failed_entries>>
              ELSE /\ loaded' = "tracks"
                   /\ tracks' = ts
                   /\ pc' = "pf_ask_import"
                   /\ UNCHANGED <<file_idx, playlist_name, mode, loopVars, matVars,
                                  imported_names, skipped_names, failed_entries,
                                  run_state>>
    /\ call' = NoCall
    /\ NoInterrupt
    /\ UNCHANGED <<argVars, summary_printed, asked_continue>>

\* lines 664-673: "Import this playlist?"
PfAskImport ==
    /\ pc = "pf_ask_import"
    /\ \E raw \in UserInputs :
         /\ Seen(raw, "ask_import")
         /\ IF ask_yes_no(raw, TRUE)
              THEN /\ pc' = "pf_name"
                   /\ UNCHANGED <<file_idx, entryVars, loopVars, matVars,
                                  skipped_names, run_state>>
              ELSE /\ skipped_names' = Append(skipped_names, CsvName(file_idx))
                   /\ Continue
    /\ NoLookup
    /\ UNCHANGED <<argVars, imported_names, failed_entries, summary_printed,
                   asked_continue>>

\* lines 676-677: the name prompt is outside the try block, so a Ctrl-C
\* leaves process_folder and main exits (lines 853-854).
PfPromptName ==
    /\ pc = "pf_name"
    /\ \E raw \in NameInputs :
         /\ Seen(raw, "name")
         /\ IF raw = "^C"
              THEN /\ pc' = "exit"
                   /\ UNCHANGED playlist_name
              ELSE /\ playlist_name' =
                        prompt_playlist_name(file_idx, raw,
                                             csv_to_default_name(file_idx))
                   /\ pc' = "pf_mode"
    /\ NoLookup
    /\ UNCHANGED <<argVars, file_idx, tracks, mode, loopVars, matVars,
                   reportVars, run_state, asked_continue>>

\* Entering import_all or import_individually.
BeginRun(m) ==
    /\ mode' = m
    /\ run_state' = "running"
    /\ pc' = IF m = "review" THEN "rev_cover" ELSE "all_loop"

\* line 680: _ask_import_mode; _ask_choice swallows a Ctrl-C.
PfAskMode ==
    /\ pc = "pf_mode"
    /\ \E raw \in ModeInputs :
         /\ BeginRun(ask_choice(raw, "all"))
         /\ Seen(raw, "mode")
    /\ NoLookup
    /\ UNCHANGED <<argVars, file_idx, tracks, playlist_name, loopVars, matVars,
                   reportVars, asked_continue>>

\* lines 688-697: "Continue with remaining playlists?"
PfInterrupted ==
    /\ pc = "pf_interrupted"
    /\ \E raw \in UserInputs :
         /\ Seen(raw, "continue")
         /\ IF ask_yes_no(raw, TRUE)
              THEN /\ skipped_names' = Append(skipped_names, playlist_name)
                   /\ Continue
                   /\ UNCHANGED asked_continue
              ELSE /\ asked_continue' = TRUE
                   /\ pc' = "exit"
                   /\ UNCHANGED <<file_idx, entryVars, loopVars, matVars,
                                  skipped_names, run_state>>
    /\ NoLookup
    /\ UNCHANGED <<argVars, imported_names, failed_entries, summary_printed>>

\* mutant: the failure is printed but not recorded
PfFailed_unrecorded ==
    /\ pc = "pf_failed"
    /\ UNCHANGED failed_entries
    /\ Continue
    /\ Quiet
    /\ UNCHANGED <<argVars, imported_names, skipped_names, summary_printed,
                   asked_continue>>

\* lines 698-704
PfFailed ==
    /\ pc = "pf_failed"
    /\ failed_entries' = Append(failed_entries, <<playlist_name, "err">>)
    /\ Continue
    /\ Quiet
    /\ UNCHANGED <<argVars, imported_names, skipped_names, summary_printed,
                   asked_continue>>

\* lines 706-711
PfImported ==
    /\ pc = "pf_imported"
    /\ imported_names' = Append(imported_names, playlist_name)
    /\ \E raw \in UserInputs :
         /\ ask_yes_no(raw, FALSE) \in BOOLEAN
         /\ Seen(raw, "open")
    /\ Continue
    /\ NoLookup
    /\ UNCHANGED <<argVars, skipped_names, failed_entries, summary_printed,
                   asked_continue>>

\* line 714, then main lines 856-857
PfSummary ==
    /\ pc = "pf_load"
    /\ file_idx > csv_files
    /\ summary_printed' = TRUE
    /\ pc' = "done"
    /\ Quiet
    /\ UNCHANGED <<argVars, file_idx, entryVars, loopVars, matVars,
                   imported_names, skipped_names, failed_entries, run_state,
                   asked_continue>>

\* ------------------------------------------------------------ main, 1 file
\* lines 864-871: a read failure and an empty track list end the process.
SfLoad ==
    /\ pc = "sf_load"
    /\ \/ /\ loaded' = "error"
          /\ pc' = "exit"
          /\ UNCHANGED tracks
       \/ \E ts \in TrackLists(MaxTracks) :
            IF ts = <<>>
              THEN loaded' = "empty" /\ pc' = "exit" /\ UNCHANGED tracks
              ELSE loaded' = "tracks" /\ pc' = "sf_name" /\ tracks' = ts
    /\ call' = NoCall
    /\ NoInterrupt
    /\ UNCHANGED <<argVars, file_idx, playlist_name, mode, loopVars, matVars,
                   reportVars, run_state, asked_continue>>

\* lines 878-882: --name, or the name prompt (no handler around it)
SfName ==
    /\ pc = "sf_name"
    /\ \/ /\ playlist_name' = TypedName(file_idx, "Mix")
          /\ pc' = "sf_mode"
          /\ NoInterrupt
       \/ \E raw \in NameInputs :
            /\ Seen(raw, "name")
            /\ IF raw = "^C"
                 THEN /\ pc' = "crash"
                      /\ UNCHANGED playlist_name
                 ELSE /\ playlist_name' =
                           prompt_playlist_name(file_idx, raw,
                                                csv_to_default_name(file_idx))
                      /\ pc' = "sf_mode"
    /\ NoLookup
    /\ UNCHANGED <<argVars, file_idx, tracks, mode, loopVars, matVars,
                   reportVars, run_state, asked_continue>>

\* line 884
SfAskMode ==
    /\ pc = "sf_mode"
    /\ \E raw \in ModeInputs :
         /\ BeginRun(ask_choice(raw, "all"))
         /\ Seen(raw, "mode")
    /\ NoLookup
    /\ UNCHANGED <<argVars, file_idx, tracks, playlist_name, loopVars, matVars,
                   reportVars, asked_continue>>

\* lines 891-892
SfInterrupted ==
    /\ pc = "sf_interrupted"
    /\ pc' = "exit"
    /\ Quiet
    /\ UNCHANGED <<argVars, file_idx, entryVars, loopVars, matVars, reportVars,
                   run_state, asked_continue>>

\* lines 894-899
SfSummary ==
    /\ pc = "sf_summary"
    /\ \E raw \in UserInputs :
         /\ ask_yes_no(raw, TRUE) \in BOOLEAN
         /\ Seen(raw, "open")
    /\ pc' = "done"
    /\ NoLookup
    /\ UNCHANGED <<argVars, file_idx, entryVars, loopVars, matVars, reportVars,
                   run_state, asked_continue>>

\* ------------------------------------------------------ Import Orchestrator
\* The loop body appended rs; go to the next track or, after the last one,
\* to the Materializer.
NextTrack(rs, head) ==
    /\ results' = rs
    /\ idx' = idx + 1
    /\ pc' = IF idx + 1 = Len(tracks) THEN "mat_create" ELSE head

\* import_all, lines 440-457: one iteration of the search loop
ImportAllStep ==
    /\ pc = "all_loop"
    /\ idx < Len(tracks)
    /\ \E a1 \in CatalogAnswers, a2 \in CatalogAnswers :
         LET track == tracks[idx + 1]
             r     == find_tidal_track(track, a1, a2)
         IN  /\ call' = r
             /\ IF r.raised
                  THEN /\ RaiseKeyboardInterrupt("resolve")
                       /\ UNCHANGED <<idx, results>>
                  ELSE /\ NextTrack(
                            Append(results,
                                   ImportResult(track, r.ret,
                                                IF r.ret # None THEN "added"
                                                                ELSE "not_found")),
                            "all_loop")
                       /\ NoInterrupt
                       /\ UNCHANGED run_state
    /\ loaded' = "-"
    /\ UNCHANGED <<argVars, file_idx, entryVars, tidal_track, matVars,
                   reportVars, asked_continue>>

\* import_individually, lines 500-504: "Show cover art?".  display_cover_art
\* and play_preview change nothing the program reads afterwards.
RevCover ==
    /\ pc = "rev_cover"
    /\ idx < Len(tracks)
    /\ IF tracks[idx + 1].image_url # ""
         THEN \E raw \in UserInputs :
                /\ ask_yes_no(raw, FALSE) \in BOOLEAN
                /\ Seen(raw, "prompt")
         ELSE NoInterrupt
    /\ pc' = "rev_preview"
    /\ NoLookup
    /\ UNCHANGED <<argVars, file_idx, entryVars, loopVars, matVars, reportVars,
                   run_state, asked_continue>>

\* lines 506-510: "Play preview?"
RevPreview ==
    /\ pc = "rev_preview"
    /\ IF tracks[idx + 1].preview_url # ""
         THEN \E raw \in UserInputs :
                /\ ask_yes_no(raw, FALSE) \in BOOLEAN
                /\ Seen(raw, "prompt")
         ELSE NoInterrupt
    /\ pc' = "rev_find"
    /\ NoLookup
    /\ UNCHANGED <<argVars, file_idx, entryVars, loopVars, matVars, reportVars,
                   run_state, asked_continue>>

\* lines 512-516 and 524-526: search; no match is recorded without a prompt
RevFind ==
    /\ pc = "rev_find"
    /\ \E a1 \in CatalogAnswers, a2 \in CatalogAnswers :
         LET track == tracks[idx + 1]
             r     == find_tidal_track(track, a1, a2)
         IN  /\ call' = r
             /\ IF r.raised
                  THEN /\ RaiseKeyboardInterrupt("resolve")
                       /\ UNCHANGED <<idx, results, tidal_track>>
                  ELSE /\ NoInterrupt
                       /\ UNCHANGED run_state
                       /\ IF r.ret # None
                            THEN /\ tidal_track' = r.ret
                                 /\ pc' = "rev_add"
                                 /\ UNCHANGED <<idx, results>>
                            ELSE /\ NextTrack(
                                      Append(results,
                                             ImportResult(track, None, "not_found")),
                                      "rev_cover")
                                 /\ UNCHANGED tidal_track
    /\ loaded' = "-"
    /\ UNCHANGED <<argVars, file_idx, entryVars, matVars, reportVars,
                   asked_continue>>

\* lines 517-523: "Add to playlist?"
RevAdd ==
    /\ pc = "rev_add"
    /\ \E raw \in UserInputs :
         /\ NextTrack(
              Append(results,
                     ImportResult(tracks[idx + 1], tidal_track,
                                  IF ask_yes_no(raw, TRUE) THEN "added"
                                                           ELSE "skipped")),
              "rev_cover")
         /\ Seen(raw, "prompt")
    /\ tidal_track' = None
    /\ NoLookup
    /\ UNCHANGED <<argVars, file_idx, entryVars, matVars, reportVars, run_state,
                   asked_continue>>

\* --------------------------------------------------- Playlist Materializer
Request(op, ids, ans) == [op |-> op, ids |-> ids, ans |-> ans, ms |-> 0]
Sleep(ms) == [op |-> "sleep", ids |-> <<>>, ans |-> "ok", ms |-> ms]
Created == [exists |-> TRUE, items |-> <<>>]

\* mutant: the `if track_ids:` guard is missing, the batch add is always
\* issued
NonEmpty_always(ids) == TRUE

\* line 550: `if track_ids:`
NonEmpty(ids) == ids # <<>>

\* lines 460-461 / 531-532 and 545-550: compute track_ids, create the playlist
MatCreate ==
    /\ pc = "mat_create"
    /\ track_ids' = IF mode = "review" THEN review_track_ids(results)
                                       ELSE all_track_ids(results)
    /\ \E ans \in RequestAnswers :
         /\ requests' = Append(requests, Request("create", <<>>, ans))
         /\ CASE ans = "ok" ->
                   /\ playlist' = Created
                   /\ IF NonEmpty(track_ids')
                        THEN /\ pc' = "mat_batch"
                             /\ NoInterrupt
                             /\ UNCHANGED run_state
                        ELSE ReturnFromImport
              [] ans = "error" ->
                   /\ UNCHANGED playlist
                   /\ RaiseException
              [] ans = "interrupt" ->
                   /\ playlist' \in {NoPlaylist, Created}
                   /\ RaiseKeyboardInterrupt("materialize")
    /\ NoLookup
    /\ UNCHANGED <<argVars, file_idx, entryVars, loopVars, tid_idx, reportVars,
                   asked_continue>>

\* lines 553-557: the batch add
MatBatch ==
    /\ pc = "mat_batch"
    /\ \E ans \in RequestAnswers :
         /\ requests' = Append(requests, Request("add", track_ids, ans))
         /\ CASE ans = "ok" ->
                   /\ playlist' = [playlist EXCEPT !.items = track_ids]
                   /\ ReturnFromImport
              [] ans = "error" ->
                   /\ UNCHANGED <<playlist, run_state>>
                   /\ NoInterrupt
                   /\ pc' = "mat_single"
              [] ans = "interrupt" ->
                   /\ playlist' \in {playlist, [playlist EXCEPT !.items = track_ids]}
                   /\ RaiseKeyboardInterrupt("materialize")
    /\ tid_idx' = 0
    /\ NoLookup
    /\ UNCHANGED <<argVars, file_idx, entryVars, loopVars, track_ids, reportVars,
                   asked_continue>>

\* line 558: the for loop goes to the next id, or the function returns
FallbackNext ==
    IF tid_idx + 1 = Len(track_ids)
      THEN ReturnFromImport
      ELSE /\ pc' = "mat_single"
           /\ NoInterrupt
           /\ UNCHANGED run_state

\* mutant: the inner try/except is missing, the failure leaves the function
SingleAddFailed_abort == RaiseException

\* lines 562-563: the failure is printed and the loop goes on
SingleAddFailed == FallbackNext

\* lines 558-563: one iteration of the one-by-one fallback
MatSingle ==
    /\ pc = "mat_single"
    /\ tid_idx < Len(track_ids)
    /\ LET tid   == track_ids[tid_idx + 1]
           added == [playlist EXCEPT !.items = Append(@, tid)]
           next  == FallbackNext
       IN  \E ans \in RequestAnswers :
             CASE ans = "ok" ->
                    /\ requests' = requests \o
                         <<Request("add", <<tid>>, ans), Sleep(fallback_delay)>>
                    /\ playlist' = added
                    /\ next
               [] ans = "error" ->
                    /\ requests' = Append(requests, Request("add", <<tid>>, ans))
                    /\ UNCHANGED playlist
                    /\ SingleAddFailed
               [] ans = "interrupt" ->
                    /\ requests' = Append(requests, Request("add", <<tid>>, ans))
                    /\ playlist' \in {playlist, added}
                    /\ RaiseKeyboardInterrupt("materialize")
    /\ tid_idx' = tid_idx + 1
    /\ NoLookup
    /\ UNCHANGED <<argVars, file_idx, entryVars, loopVars, track_ids, reportVars,
                   asked_continue>>

\* ----------------------------------------------------------- specification
Next ==
    \/ ProcessFolderStart
    \/ PfLoad
    \/ PfAskImport
    \/ PfPromptName
    \/ PfAskMode
    \/ PfInterrupted
    \/ PfFailed
    \/ PfImported
    \/ PfSummary
    \/ SfLoad
    \/ SfName
    \/ SfAskMode
    \/ SfInterrupted
    \/ SfSummary
    \/ ImportAllStep
    \/ RevCover
    \/ RevPreview
    \/ RevFind
    \/ RevAdd
    \/ MatCreate
    \/ MatBatch
    \/ MatSingle

Spec == Init /\ [][Next]_vars

TypeOK ==
    /\ pc \in {"pf_start", "pf_load", "pf_ask_import", "pf_name", "pf_mode",
               "pf_interrupted", "pf_failed", "pf_imported", "sf_load", "sf_name",
               "sf_mode", "sf_interrupted", "sf_summary", "all_loop", "rev_cover",
               "rev_preview", "rev_find", "rev_add", "mat_create", "mat_batch",
               "mat_single", "done", "exit", "crash"}
    /\ run_state \in {"none", "running", "returned", "cancelled", "failed"}
    /\ loaded \in {"-", "error", "empty", "tracks"}
    /\ idx \in 0..Len(tracks)
    /\ Len(results) = idx
    /\ tid_idx \in 0..Len(track_ids)

\* ------------------------------------------------------------------ claims
Statuses(rs) == { rs[i].status : i \in 1..Len(rs) }
Range(seq) == { seq[i] : i \in 1..Len(seq) }

\* number of entries among the first i of rs that satisfy P
Rank(rs, i, P(_)) == Cardinality({ j \in 1..i : P(rs[j]) })

\* ids lists, entry for entry and in order, the matches of the results that
\* satisfy P
ListsExactly(ids, rs, P(_)) ==
    /\ Len(ids) = Rank(rs, Len(rs), P)
    /\ \A i \in 1..Len(rs) : P(rs[i]) => ids[Rank(rs, i, P)] = rs[i].tidal_track

HasMatch(r) == r.tidal_track # None
StatusAdded(r) == r.status = "added"

MaterializerCalled == requests # <<>>

\* C1: when import_all or import_individually has returned, there is one
\* result per input track, the i-th result is about the i-th track, and no
\* result is left pending.
C1_OneTerminalResultPerTrack ==
    run_state = "returned" =>
        /\ Len(results) = Len(tracks)
        /\ \A i \in 1..Len(tracks) :
             /\ results[i].spotify_track = tracks[i]
             /\ results[i].status \in {"added", "skipped", "not_found"}

C1_Witness ==
    /\ run_state = "returned"
    /\ Len(tracks) >= 2
    /\ tracks[1] # tracks[2]
    /\ Cardinality(Statuses(results)) >= 2

\* C2: a find_tidal_track call whose ISRC lookup got a hit returns that hit
\* and issues no text search.
C2_IsrcHitSkipsSearch ==
    call.isrc.kind = "hit" =>
        /\ ~call.raised
        /\ call.ret = call.isrc.id
        /\ CountOp(call.ops, "search") = 0
        /\ CountOp(call.ops, "isrc") = 1

C2_Witness ==
    /\ call.isrc.kind = "hit"
    /\ call.ret \in TidalIds
    /\ run_state = "running"

\* C3: in automatic mode every track without a match has status not_found
\* (and every other one added), the result appended by a step carries what
\* the Resolver returned, and the Materializer's track-id list is, entry for
\* entry and in track order, the identifiers of the matched tracks.
C3_AutoPassesExactlyTheMatches ==
    (mode = "all" /\ run_state # "none") =>
        /\ \A i \in 1..Len(results) :
             results[i].status =
                 IF results[i].tidal_track = None THEN "not_found" ELSE "added"
        /\ (call # NoCall /\ ~call.raised) =>
               results[Len(results)].tidal_track = call.ret
        /\ MaterializerCalled =>
               /\ ListsExactly(track_ids, results, HasMatch)
               /\ None \notin Range(track_ids)

C3_Witness ==
    /\ mode = "all"
    /\ run_state = "returned"
    /\ Len(results) >= 2
    /\ results[1].status = "not_found"
    /\ results[2].status = "added"
    /\ track_ids = <<results[2].tidal_track>>

\* C4 as stated: the identifier of a declined track is not in the
\* Materializer's track-id list.
C4_DeclinedIdNotInList ==
    (mode = "review" /\ MaterializerCalled) =>
        \A i \in 1..Len(results) :
            results[i].status = "skipped" =>
                results[i].tidal_track \notin Range(track_ids)

\* C4 (amended): in interactive mode a resolved track the user declines
\* ("n" at "Add to playlist?") gets status skipped and contributes no entry
\* to the Materializer's track-id list, which is, entry for entry and in track
\* order, the identifiers of the tracks with status added; the identifier of
\* a declined track is in the list only if an added track resolved to it too.
C4_DeclinedContributesNoEntry ==
    (mode = "review" /\ run_state # "none") =>
        /\ (answer = "n" /\ pc \in {"rev_cover", "mat_create"}) =>
               /\ results[Len(results)].status = "skipped"
               /\ results[Len(results)].tidal_track # None
        /\ MaterializerCalled =>
               /\ ListsExactly(track_ids, results, StatusAdded)
               /\ \A i \in 1..Len(results) :
                    (/\ results[i].status = "skipped"
                     /\ results[i].tidal_track \in Range(track_ids))
                    => \E j \in 1..Len(results) :
                         /\ results[j].status = "added"
                         /\ results[j].tidal_track = results[i].tidal_track

C4_Witness ==
    /\ mode = "review"
    /\ run_state = "returned"
    /\ Len(results) >= 2
    /\ results[1].status = "skipped"
    /\ results[2].status = "added"
    /\ results[1].tidal_track # results[2].tidal_track
    /\ track_ids = <<results[2].tidal_track>>

\* the add requests that followed the batch add
SingleAdds == SelectSeq(SubSeq(requests, 3, Len(requests)),
                        LAMBDA r : r.op = "add")
Succeeded(r) == r.ans = "ok"
RECURSIVE RequestIds(_)
RequestIds(rq) ==
    IF rq = <<>> THEN <<>> ELSE Head(rq).ids \o RequestIds(Tail(rq))

BatchFailed ==
    /\ Len(requests) >= 2
    /\ requests[2].op = "add"
    /\ requests[2].ans = "error"

\* C5 as stated: after a failed batch add, an id whose individual add failed
\* is absent from the final playlist.
C5_FailedIdsAbsent ==
    (run_state = "returned" /\ BatchFailed) =>
        \A k \in 1..Len(SingleAdds) :
            SingleAdds[k].ans = "error" =>
                SingleAdds[k].ids[1] \notin Range(playlist.items)

\* C5 (amended): after a failed batch add every entry of the track-id list
\* is attempted individually, in order; a failed attempt neither ends the
\* loop nor leaves the function as an exception; the final playlist holds,
\* in order, exactly the entries whose own attempt succeeded (an id that
\* failed is absent unless another entry with the same id succeeded); and
\* the playlist handle is returned.
C5_FallbackAddsEachEntry ==
    /\ BatchFailed =>
         /\ Len(SingleAdds) = tid_idx
         /\ \A k \in 1..tid_idx : SingleAdds[k].ids = <<track_ids[k]>>
         /\ run_state \in {"running", "returned", "cancelled"}
         /\ run_state # "cancelled" =>
                playlist.items = RequestIds(SelectSeq(SingleAdds, Succeeded))
    /\ (run_state = "returned" /\ BatchFailed) =>
         /\ tid_idx = Len(track_ids)
         /\ playlist.exists
         /\ \A k \in 1..Len(SingleAdds) :
              (/\ SingleAdds[k].ans = "error"
               /\ SingleAdds[k].ids[1] \in Range(playlist.items))
              => \E m \in 1..Len(SingleAdds) :
                   /\ SingleAdds[m].ans = "ok"
                   /\ SingleAdds[m].ids = SingleAdds[k].ids

C5_Witness ==
    /\ run_state = "returned"
    /\ BatchFailed
    /\ Len(SingleAdds) = 2
    /\ SingleAdds[1].ans = "error"
    /\ SingleAdds[2].ans = "ok"
    /\ SingleAdds[1].ids # SingleAdds[2].ids
    /\ playlist.items = SingleAdds[2].ids

\* C6: a Ctrl-C raised during the per-track loop, at a yes/no prompt of the
\* interactive mode or inside the Resolver, leaves the run as a cancellation.
C6_LoopCancelPropagates ==
    interrupt \in {"prompt", "resolve"} => run_state = "cancelled"

\* C7: a run cancelled before the per-track loop finished its last track has
\* issued no create-playlist and no add request, and has no playlist.
C7_NoMaterializeAfterLoopCancel ==
    (run_state = "cancelled" /\ idx < Len(tracks)) =>
        /\ requests = <<>>
        /\ ~playlist.exists
        /\ pc \in {"pf_interrupted", "sf_interrupted", "exit"}

C7_Witness ==
    /\ run_state = "cancelled"
    /\ idx >= 1
    /\ idx < Len(tracks)
    /\ interrupt = "resolve"

\* how often entry f is recorded in the three report lists
Recorded(f) ==
    Cardinality({ i \in 1..Len(imported_names) : imported_names[i].file = f })
    + Cardinality({ i \in 1..Len(skipped_names) : skipped_names[i].file = f })
    + Cardinality({ i \in 1..Len(failed_entries) : failed_entries[i][1].file = f })

\* C8: at every point of process_folder each entry already processed is
\* recorded exactly once and no other entry is recorded; when the summary is
\* printed the three lists together have one entry per discovered file.
C8_EachEntryRecordedOnce ==
    args_folder =>
        /\ \A f \in 0..(MaxFiles + 1) :
             Recorded(f) = IF f \in 1..(file_idx - 1) THEN 1 ELSE 0
        /\ summary_printed =>
             Len(imported_names) + Len(skipped_names) + Len(failed_entries)
                 = csv_files

C8_Witness ==
    /\ summary_printed
    /\ pc = "done"
    /\ csv_files >= 3
    /\ imported_names # <<>>
    /\ skipped_names # <<>>
    /\ failed_entries # <<>>

\* C9: when the batch is aborted by a "no" to "Continue with remaining
\* playlists?", the folder summary has been printed by the time the process
\* exits.
C9_SummaryPrintedOnAbort ==
    (pc = "exit" /\ asked_continue) => summary_printed

\* C10: in process_folder a Ctrl-C at the name prompt, at the mode prompt or
\* during the import run leads to "Continue with remaining playlists?", and
\* a "no" there propagates the cancellation out of process_folder.
C10_Step4CancelAsksContinue ==
    /\ (args_folder /\ interrupt \in {"name", "mode", "resolve", "materialize"})
           => pc = "pf_interrupted"
    /\ asked_continue => pc = "exit"

\* C11: in process_folder an exception other than a cancellation that leaves
\* the import of an entry (the create-playlist request failed) reaches the
\* handler of that entry, which appends one (playlist name, error text) pair
\* to failed, touches no other list and goes on with the next entry.
C11_ImportFailureRecorded ==
    [][/\ (args_folder /\ run_state' = "failed") =>
              /\ pc' = "pf_failed"
              /\ requests'[Len(requests')] = Request("create", <<>>, "error")
       /\ pc = "pf_failed" =>
              /\ failed_entries' = Append(failed_entries, <<playlist_name, "err">>)
              /\ UNCHANGED <<imported_names, skipped_names>>
              /\ file_idx' = file_idx + 1
              /\ pc' = "pf_load"]_vars

C11_Witness ==
    \E i \in 1..Len(failed_entries), j \in 1..Len(imported_names) :
        /\ failed_entries[i][1] = csv_to_default_name(failed_entries[i][1].file)
        /\ failed_entries[i][2] = "err"
        /\ imported_names[j].file > failed_entries[i][1].file

\* `continue` reached before any name prompt, mode prompt or import run of
\* the entry
EntryEndsUntouched ==
    /\ pc' = "pf_load"
    /\ file_idx' = file_idx + 1
    /\ playlist_name' = CsvName(0)
    /\ run_state' = "none"
    /\ requests' = <<>>
    /\ results' = <<>>

InDiscoveryOrder(names) ==
    \A i, j \in 1..Len(names) : i < j => names[i].file < names[j].file

\* C12: in process_folder an entry that parses to zero tracks and an entry
\* the user declines ("n" at "Import this playlist?") are appended to
\* skipped under the file's name, without name prompt, mode prompt or import
\* run; an entry whose parsing fails is appended to failed without any
\* prompt; an imported entry is appended to imported; skipped and imported
\* are in discovery order; the summary reports the number of discovered
\* files as total and the lengths of the three lists.
C12_EntryOutcomesRecorded ==
    [][/\ (args_folder /\ loaded' = "empty") =>
              /\ skipped_names' = Append(skipped_names, CsvName(file_idx))
              /\ UNCHANGED <<imported_names, failed_entries>>
              /\ answer' = "-"
              /\ EntryEndsUntouched
       /\ (args_folder /\ loaded' = "error") =>
              /\ failed_entries' =
                     Append(failed_entries, <<CsvName(file_idx), "err">>)
              /\ UNCHANGED <<imported_names, skipped_names>>
              /\ answer' = "-"
              /\ EntryEndsUntouched
       /\ (pc = "pf_ask_import" /\ answer' = "n") =>
              /\ skipped_names' = Append(skipped_names, CsvName(file_idx))
              /\ UNCHANGED <<imported_names, failed_entries>>
              /\ EntryEndsUntouched
       /\ (args_folder /\ run_state = "returned") =>
              /\ imported_names' = Append(imported_names, playlist_name)
              /\ UNCHANGED <<skipped_names, failed_entries>>
       /\ InDiscoveryOrder(skipped_names')
       /\ InDiscoveryOrder(imported_names')
       /\ summary_printed' =>
              print_folder_summary(csv_files', imported_names', skipped_names',
                                   failed_entries')
                = [total    |-> csv_files,
                   imported |-> Len(imported_names),
                   skipped  |-> Len(skipped_names),
                   failed   |-> csv_files - Len(imported_names)
                                          - Len(skipped_names)]]_vars

\* files A (no tracks), B (declined), C (imported)
C12_Witness ==
    /\ pc = "done"
    /\ summary_printed
    /\ skipped_names = <<CsvName(1), CsvName(2)>>
    /\ imported_names = <<csv_to_default_name(3)>>
    /\ failed_entries = <<>>
    /\ print_folder_summary(csv_files, imported_names, skipped_names,
                            failed_entries)
         = [total |-> 3, imported |-> 1, skipped |-> 2, failed |-> 0]

LookupFailed == "error" \in {call.isrc.kind, call.search.kind}

\* C13: a lookup error inside find_tidal_track never leaves the function:
\* after an error of the ISRC lookup the text search is still issued, an
\* error of the text search makes the call return None, and the per-track
\* loop of the Orchestrator goes on (a None is recorded as not_found, a hit
\* of the text search is used); no run fails because of a lookup.
C13_LookupErrorsSwallowed ==
    /\ call.isrc.kind = "error" =>
           /\ call.search.kind # "none"
           /\ CountOp(call.ops, "search") = 1
           /\ call.ops[1].op = "isrc"
           /\ call.ops[Len(call.ops)].op = "search"
    /\ call.search.kind = "error" =>
           /\ ~call.raised
           /\ call.ret = None
    /\ (LookupFailed /\ ~call.raised) =>
           /\ run_state = "running"
           /\ IF call.ret = None
                THEN /\ pc \in {"all_loop", "rev_cover", "mat_create"}
                     /\ Len(results) >= 1
                     /\ results[Len(results)].status = "not_found"
                ELSE /\ call.ret = call.search.id
                     /\ pc \in {"all_loop", "rev_add", "mat_create"}
    /\ run_state = "failed" => (call = NoCall /\ requests # <<>>)

C13_Witness ==
    /\ call.isrc.kind = "error"
    /\ call.search.kind = "error"
    /\ pc \in {"all_loop", "rev_cover"}
    /\ idx >= 1
    /\ idx < Len(tracks)

CountStatus(rs, st) == Cardinality({ i \in 1..Len(rs) : rs[i].status = st })

\* C14: in every result list of the Orchestrator a result is skipped only
\* in interactive mode, only for a track with a match, and only by a step in
\* which the user typed "n" at "Add to playlist?"; a result is not_found
\* exactly when it has no match; an added result has a match, and once the
\* run has returned its identifier was in the batch add request; no step of
\* the Materializer changes a result, whatever its add requests answer.
C14_StatusesMeanWhatTheySay ==
    /\ [](\A i \in 1..Len(results) :
             /\ results[i].status = "skipped" =>
                    (mode = "review" /\ results[i].tidal_track # None)
             /\ results[i].status = "not_found" <=>
                    results[i].tidal_track = None
             /\ results[i].status = "added" =>
                    /\ results[i].tidal_track # None
                    /\ run_state = "returned" =>
                           /\ Len(requests) >= 2
                           /\ requests[2].op = "add"
                           /\ results[i].tidal_track \in Range(requests[2].ids))
    /\ [][/\ CountStatus(results', "skipped") > CountStatus(results, "skipped")
               => (pc = "rev_add" /\ answer' = "n")
          /\ pc \in {"mat_create", "mat_batch", "mat_single"}
               => results' = results]_vars

\* the batch add and the single add of the only id failed; the result is
\* still added
C14_Witness ==
    /\ run_state = "returned"
    /\ mode = "review"
    /\ Len(results) >= 2
    /\ results[1].status = "skipped"
    /\ results[2].status = "added"
    /\ BatchFailed
    /\ playlist.items = <<>>

\* C15 as stated: every find_tidal_track call that is not cancelled in its
\* ISRC lookup applies the throttle delay, whatever the ISRC lookup gave
\* (hit, miss, error, no ISRC), and applies it before any text search.
C15_ThrottleInEveryCall ==
    (call # NoCall /\ call.isrc.kind # "interrupt") =>
        /\ CountOp(call.ops, "sleep") = 1
        /\ \A i, j \in 1..Len(call.ops) :
             (call.ops[i].op = "sleep" /\ call.ops[j].op = "search") => i < j

\* C15 (amended): a find_tidal_track call whose ISRC lookup gave no hit
\* (miss, error, or no ISRC on the track) sleeps retry_delay exactly once,
\* immediately before its one text search; a call whose ISRC lookup gave a
\* hit returns without sleeping and without a text search.
C15_ThrottleBeforeTextSearch ==
    call # NoCall =>
        IF call.isrc.kind \in {"hit", "interrupt"}
          THEN /\ CountOp(call.ops, "sleep") = 0
               /\ CountOp(call.ops, "search") = 0
          ELSE /\ CountOp(call.ops, "sleep") = 1
               /\ CountOp(call.ops, "search") = 1
               /\ call.ops[Len(call.ops) - 1] = Op("sleep", retry_delay)
               /\ call.ops[Len(call.ops)].op = "search"

C15_Witness ==
    /\ call.isrc.kind = "miss"
    /\ call.search.kind = "hit"
    /\ call.ops = <<Op("isrc", 0), Op("sleep", retry_delay), Op("search", 0)>>
    /\ Len(results) >= 1
    /\ results[Len(results)].tidal_track = call.ret

CountRequests(op) == Cardinality({ i \in 1..Len(requests) : requests[i].op = op })

\* C16: the Materializer issues its create-playlist request first and never
\* a second one; when it has returned, the create request succeeded and the
\* playlist exists; with an empty track-id list the create request is the
\* only request and the playlist is empty; with a non-empty list the request
\* after the create is one add carrying the whole list, whatever the add
\* requests answered.
C16_OneCreateThenOneBatch ==
    /\ MaterializerCalled =>
           /\ requests[1].op = "create"
           /\ CountRequests("create") = 1
    /\ run_state = "returned" =>
           /\ requests[1] = Request("create", <<>>, "ok")
           /\ playlist.exists
           /\ IF track_ids = <<>>
                THEN /\ requests = <<Request("create", <<>>, "ok")>>
                     /\ playlist.items = <<>>
                ELSE /\ Len(requests) >= 2
                     /\ requests[2].op = "add"
                     /\ requests[2].ids = track_ids

\* two ids, the batch add and both single adds failed
C16_Witness ==
    /\ run_state = "returned"
    /\ Len(track_ids) = 2
    /\ CountRequests("add") = 3
    /\ \A i \in 2..Len(requests) : requests[i].ans = "error"
    /\ playlist = Created

\* C17: in the one-by-one fallback, between any two consecutive single add
\* requests the Materializer sleeps, whether the earlier of the two
\* succeeded or failed, and sleeps as long as find_tidal_track does
\* (retry_delay).
C17_ThrottleBetweenSingleAdds ==
    BatchFailed =>
        \A i, j \in 3..Len(requests) :
            (i < j /\ requests[i].op = "add" /\ requests[j].op = "add") =>
                \E k \in (i + 1)..(j - 1) : requests[k] = Sleep(retry_delay)

\* C18: whenever process_folder appends an entry to skipped (no tracks,
\* declined, or cancelled and "continue"), no create-playlist request was
\* issued for that entry and no playlist of it exists.
C18_SkippedEntryHasNoPlaylist ==
    [][Len(skipped_names') > Len(skipped_names) =>
           /\ CountRequests("create") = 0
           /\ ~playlist.exists]_vars

====
